---- MODULE Spec2Model ----
(***************************************************************************)
(* Rolling-CAGR routines of the repository:                                *)
(*   fetch_nifty_data.calculate_rolling_cagr      (routine "fetch")        *)
(*   nse_index_st.calculate_nse_rolling_cagr      (routine "nse")          *)
(*   mf_st.calculate_rolling_cagr                 (routine "mf")           *)
(* and the four CAGR calculators                  (routine "calc");        *)
(* the two network functions of nse_index_st:                              *)
(*   fetch_nse_historical_data                    (routine "history")      *)
(*   fetch_nse_indices                            (routine "indices")      *)
(* and the dashboards index_st.main and nse_index_st.main, each with a     *)
(* specification of its own.                                               *)
(*                                                                         *)
(* Dates are day numbers (midnight of that day).  Where the code adds a    *)
(* fractional number of days (365.25 per year) instants are counted in     *)
(* quarter days, so every comparison of the code is exact integer          *)
(* arithmetic.  A price is an integer (a float holding it exactly).        *)
(* A float result of the CAGR formula is kept as the real number it        *)
(* denotes: the triple (start, end, years4), years4 the elapsed time in    *)
(* quarter days (1461 of them are a year of 365.25 days), stands for       *)
(*   ((end / start) ** (1 / years) - 1) * 100,  years = years4 / 1461.     *)
(***************************************************************************)
EXTENDS Integers, Sequences, FiniteSets, TLC

VARIABLES
    routine,        \* which routine this call runs
    hist_data,      \* the price series the call receives (rows sorted by date)
    window_years,   \* argument window_years
    stride_days,    \* argument stride_days
    start_date,     \* argument start_date: << >> is None, <<d>> a date
    df,             \* working frame of nse / mf (after filter / sort / reset_index)
    pc,             \* position in the routine: "start", "loop", "stats", "done"
    current_start,  \* fetch: anchor date of the next window
    start_idx,      \* nse / mf: position of the next window's first row
    windows,        \* the list of windows built so far
    passed,         \* history: the realized endpoints of every step of the walk
                    \* that passed the routine's gates, emitted or not
    stop,           \* why the window walk ended ("" while it runs)
    result,         \* the value the call returns
    calc,           \* a direct call of one calculator: its arguments and result
    calls,          \* history: the arguments and the report of every earlier call
    max_years,      \* fetch_nse_historical_data: argument max_years
    years,          \* its loop variable, 0 once range(max_years, 0, -1) is used up
    response,       \* its local `response`: "unbound" until requests.get returned
    attempts,       \* history: the year range and the outcome of every request
    last_error_details,  \* << >> is None, <<y>> the details with years_attempted = y
    historical_result,   \* the value fetch_nse_historical_data returns
    api_answer,     \* fetch_nse_indices: what the index-names API answers
    local_file,     \* what assets/nse-index-names.json is on the disk
    indices_pc,     \* position in fetch_nse_indices: "api", "fallback", "done", and
                    \* "cached" when the value came from st.cache_data
    indices_result, \* the value fetch_nse_indices returns
    indices_cache,  \* the store of st.cache_data: << >> or << the value >>
    session,        \* the dashboards: st.session_state
    widgets,        \* the values the widgets had in the latest rerun
    shown           \* what the latest rerun put on the page

\* the variables of the rolling routines and the calculators
rollVars == << routine, hist_data, window_years, stride_days, start_date, df, pc,
               current_start, start_idx, windows, passed, stop, result, calc, calls >>

\* the variables of fetch_nse_historical_data
histVars == << max_years, years, response, attempts, last_error_details,
               historical_result >>

\* the variables of fetch_nse_indices
listVars == << api_answer, local_file, indices_pc, indices_result, indices_cache >>

\* the variables of the dashboards index_st.main and nse_index_st.main
uiVars == << session, widgets, shown >>

\* the variables the rolling routines and the calculators do not touch
outerVars == << histVars, listVars, uiVars >>

vars == << rollVars, outerVars >>

-----------------------------------------------------------------------------
(* Bounds of the model *)

MaxShort == 3       \* longest series with freely chosen gaps and prices
MinLong == 11       \* shortest evenly spaced series
MaxLong == 24       \* longest evenly spaced series
MaxCalls == 3       \* calls of a routine on one series, one after the other

GapSet == {30, 300, 360}        \* days between consecutive observations
PriceSet == {-1, 0, 2}          \* closing prices
ClosePrices == {40000, 40001, 40002}    \* closing prices close to each other
LongGaps == {1, 30}             \* spacing of an evenly spaced series
TailGap == 400                  \* optional long gap before the last observation
WindowYears == {1, 2}
FetchStrides == {30, 360}
NseStrides == {1, 21}
StartDates == {<< >>, <<15>>, <<350>>}
CalcPrices == {-1, 0, 1, 2, 100, 200}
CalcYears4 == {-1464, 0, 1461, 1464, 7305}   \* elapsed time, in quarter days

-----------------------------------------------------------------------------
(* Values *)

\* Python None, a float and a complex number, as results of the CAGR formula.
None == [tag |-> "None", start |-> 0, end |-> 0, years4 |-> 0]
Float(s, e, y4) == [tag |-> "float", start |-> s, end |-> e, years4 |-> y4]
Complex(s, e, y4) == [tag |-> "complex", start |-> s, end |-> e, years4 |-> y4]
\* the literal 0.0: ((1 / 1) ** (1 / years) - 1) * 100
FloatZero == Float(1, 1, 1461)

\* a standard deviation: NaN, 0.0, or the real number that the values `of` and
\* the divisor len(of) - ddof give; NoStd where the dictionary has no such key
NaN == [tag |-> "nan", ddof |-> 0, of |-> << >>]
ZeroStd == [tag |-> "zero", ddof |-> 0, of |-> << >>]
NoStd == [tag |-> "absent", ddof |-> 0, of |-> << >>]

NoResult == [kind |-> "none", error |-> "", total_windows |-> 0,
             windows |-> << >>, valid_cagrs |-> << >>,
             std_cagr |-> NoStd, analysis_period |-> << >>]
ErrorResult(msg) == [kind |-> "error", error |-> msg, total_windows |-> 0,
                     windows |-> << >>, valid_cagrs |-> << >>,
                     std_cagr |-> NoStd, analysis_period |-> << >>]

NoCalc == [fn |-> "", start_value |-> 0, end_value |-> 0, years4 |-> 0,
           called |-> FALSE, result |-> None]

Abs(x) == IF x < 0 THEN -x ELSE x

RECURSIVE SeqFilterCagr(_)
\* [w['cagr'] for w in windows if w['cagr'] is not None]
SeqFilterCagr(ws) ==
    IF ws = << >> THEN << >>
    ELSE IF Head(ws).cagr = None THEN SeqFilterCagr(Tail(ws))
         ELSE << Head(ws).cagr >> \o SeqFilterCagr(Tail(ws))

-----------------------------------------------------------------------------
(* Input series *)

RECURSIVE DatesFromGaps(_, _)
\* the dates of a series that starts on day `first` and then has the gaps gs
DatesFromGaps(first, gs) ==
    IF gs = << >> THEN << first >>
    ELSE << first >> \o DatesFromGaps(first + Head(gs), Tail(gs))

\* rows in date order; label is the row's index label (its position on arrival)
MkSeries(dates, prices, desc) ==
    [i \in 1..Len(dates) |->
        [Date |-> dates[i], Close |-> prices[i],
         label |-> IF desc THEN Len(dates) - i ELSE i - 1]]

ShortSeries ==
    { << >> } \cup
    UNION { { MkSeries(DatesFromGaps(0, gs), ps, FALSE) :
                gs \in [1..(n - 1) -> GapSet], ps \in [1..n -> PriceSet] } :
            n \in 1..MaxShort }

\* two or three observations 360 days apart whose prices differ by a few
\* hundredths of a percent
CloseSeries ==
    UNION { { MkSeries(DatesFromGaps(0, [k \in 1..(n - 1) |-> 360]), ps, FALSE) :
                ps \in [1..n -> ClosePrices] } :
            n \in 2..3 }

\* n observations g days apart, the last one TailGap days after the one before
\* when tailLong; every price is 2 except a bad one: bad = 1 puts badPrice on the
\* first row, bad = 2 on the last row, bad = 0 nowhere; bad = 3 is the series of
\* the rising prices 2, 3, ..., bad = 4 the one of the falling prices ..., 3, 2
LongSeries(n, g, tailLong, bad, badPrice, desc) ==
    MkSeries([i \in 1..n |-> IF i = n /\ n > 1 /\ tailLong
                             THEN (n - 2) * g + TailGap ELSE (i - 1) * g],
             [i \in 1..n |-> IF (bad = 1 /\ i = 1) \/ (bad = 2 /\ i = n)
                             THEN badPrice
                             ELSE IF bad = 3 THEN i + 1
                             ELSE IF bad = 4 THEN n + 2 - i
                             ELSE 2],
             desc)

\* one observation a day from 01-01-2015 (day 0) to 01-01-2025 (day 3653), the
\* price rising linearly from 100 to 300, in units of 100 / 3653
LinearSeries ==
    [i \in 1..3654 |-> [Date |-> i - 1, Close |-> 3653 + 2 * (i - 1), label |-> i - 1]]

LongSet(descs) ==
    { LongSeries(n, g, tailLong, bp[1], bp[2], desc) :
        n \in MinLong..MaxLong, g \in LongGaps, tailLong \in BOOLEAN,
        bp \in { <<0, 2>>, <<1, 0>>, <<1, -1>>, <<2, 0>>, <<2, -1>>,
                 <<3, 2>>, <<4, 2>> },
        desc \in descs }

-----------------------------------------------------------------------------
(* Constants of the code *)

DaysPerYear4 == 1461    \* 365.25 days, in quarter days
Tolerance98 == 98       \* the 0.98 of the remaining-span check, in percent
Tolerance90 == 90       \* the 0.9 of the realized-span checks, in percent
MfStride == 21          \* mf_st's fixed stride_days
RoughMonth == 30        \* nse's window_days // 30 estimate of the points needed

HalfUnitInverse == 20000   \* 1 / 0.00005: round(x, 2) is 0.0 below 0.005 percent
SurelyNotZero == 1000      \* a change of 0.1 percent of the price or more

-----------------------------------------------------------------------------
(* Rounding and the numbers the floats denote *)

\* round(x, 2) if x is not None else x; a complex x (round raises) stays as it is
Round2(x) == IF x.tag = "float" THEN [x EXCEPT !.tag = "rounded"] ELSE x

\* the float x is 0.0: equal prices, or a float rounded to two places whose
\* magnitude is below 0.005, that is |end / start - 1| / years < 0.00005 (for the
\* price changes below 0.1 percent and the elapsed times of the model, at least
\* 0.9 years, the first-order term of the power decides)
IsZero(x) ==
    \/ x.end = x.start
    \/ /\ x.tag = "rounded" /\ x.start > 0 /\ x.end > 0
       /\ Abs(x.end - x.start) * SurelyNotZero < x.start
       /\ Abs(x.end - x.start) * HalfUnitInverse * DaysPerYear4 < x.start * x.years4

\* 1, 0, -1: the sign of the float x (start > 0, end >= 0)
Sign(x) == IF IsZero(x) THEN 0 ELSE IF x.end > x.start THEN 1 ELSE -1

\* the floats a and b are the same number: both 0.0, both -100.0 (end price 0),
\* or the same growth over the same time (no two windows of a series of the
\* model agree otherwise)
SameNumber(a, b) ==
    \/ IsZero(a) /\ IsZero(b)
    \/ a.end = 0 /\ b.end = 0
    \/ a.years4 = b.years4 /\ a.tag = b.tag /\ a.end * b.start = b.end * a.start

\* the standard deviation of the values with the divisor len(values) - ddof,
\* rounded to two places
StdOf(values, ddof) ==
    IF Len(values) - ddof = 0 THEN NaN
    ELSE IF \A i, j \in 1..Len(values) : SameNumber(values[i], values[j]) THEN ZeroStd
    ELSE [tag |-> "std", ddof |-> ddof, of |-> values]

-----------------------------------------------------------------------------
(* The CAGR calculators *)

\* the value of (end_value / start_value) ** (1 / years), minus 1, times 100, for
\* start_value > 0 and years4 > 0: a negative float to a power that is not a whole
\* number is a complex number in Python 3; 1 / years = 1461 / years4
Power(start_value, end_value, years4) ==
    IF end_value < 0 /\ DaysPerYear4 % years4 # 0
    THEN Complex(start_value, end_value, years4)
    ELSE Float(start_value, end_value, years4)

\* the calculator with the two prices taken the other way round
fetch_calculate_cagr_swapped(start_value, end_value, sd, ed) ==
    IF ed - sd <= 0 \/ start_value <= 0 THEN None
    ELSE Power(end_value, start_value, 4 * (ed - sd))

\* fetch_nifty_data.calculate_cagr; years = (end_date - start_date).days / 365.25
fetch_calculate_cagr(start_value, end_value, sd, ed) ==
    IF ed - sd <= 0 \/ start_value <= 0 THEN None
    ELSE Power(start_value, end_value, 4 * (ed - sd))

\* the calculator with a special case for a falling price
calculate_nse_cagr_gain_only(start_value, end_value, years4) ==
    IF start_value <= 0 \/ end_value <= 0 \/ years4 <= 0 \/ end_value < start_value
    THEN None
    ELSE Power(start_value, end_value, years4)

\* nse_index_st.calculate_nse_cagr
calculate_nse_cagr(start_value, end_value, years4) ==
    IF start_value <= 0 \/ end_value <= 0 \/ years4 <= 0 THEN None
    ELSE Power(start_value, end_value, years4)

\* mf_st.calculate_cagr
mf_calculate_cagr(start_value, end_value, years4) ==
    IF start_value <= 0 \/ end_value <= 0 \/ years4 <= 0 THEN FloatZero
    ELSE Power(start_value, end_value, years4)

\* index_cagr_analysis_excel.calculate_cagr
excel_calculate_cagr(start_price, end_price, years4) ==
    IF start_price <= 0 \/ end_price <= 0 \/ years4 <= 0 THEN None
    ELSE Power(start_price, end_price, years4)

-----------------------------------------------------------------------------
(* fetch_nifty_data.calculate_rolling_cagr *)

\* min(available_dates, key=lambda x: abs(x - start_dt)): the first date, in
\* index order, whose distance to d is the least
ClosestStart(d) ==
    LET best == CHOOSE i \in 1..Len(hist_data) :
                    /\ \A j \in 1..Len(hist_data) :
                          Abs(hist_data[i].Date - d) <= Abs(hist_data[j].Date - d)
                    /\ \A j \in 1..(i - 1) :
                          Abs(hist_data[j].Date - d) > Abs(hist_data[i].Date - d)
    IN hist_data[best].Date

\* start_dt: the closest available date when start_date is given, else index.min()
start_dt ==
    IF start_date # << >> THEN ClosestStart(start_date[1]) ELSE hist_data[1].Date

\* end_dt = hist_data.index.max()
end_dt == hist_data[Len(hist_data)].Date

\* the selection with `<` in place of `<=`
LastBefore(t4) ==
    LET n == Len(hist_data)
        Selected(i) == 4 * hist_data[i].Date < t4
    IN IF \E i \in 1..n : Selected(i)
       THEN CHOOSE i \in 1..n : Selected(i) /\ \A j \in (i + 1)..n : ~Selected(j)
       ELSE 0

\* hist_data[hist_data.index <= t] for an instant t in quarter days: the position
\* of its last row, 0 when it is empty
LastAtOrBefore(t4) ==
    LET n == Len(hist_data)
        Selected(i) == 4 * hist_data[i].Date <= t4
    IN IF \E i \in 1..n : Selected(i)
       THEN CHOOSE i \in 1..n : Selected(i) /\ \A j \in (i + 1)..n : ~Selected(j)
       ELSE 0

\* the remaining-span check with the tolerance of the realized-span check
Below98Slack(days) == days * 4 * 100 < window_years * DaysPerYear4 * Tolerance90

\* remaining_days < window_days * 0.98, and the same test of actual_days
Below98(days) == days * 4 * 100 < window_years * DaysPerYear4 * Tolerance98

\* actual_years < window_years * 0.9, actual_years = days / 365.25
Below90(days) == days * 4 * 100 < window_years * DaysPerYear4 * Tolerance90

\* the stop test with the whole window length in place of 90% of it
NearEndWholeWindow(anchor) == (end_dt - anchor) * 4 <= window_years * DaysPerYear4

\* current_start >= end_dt - timedelta(days=window_days * 0.9)
NearEnd(anchor) == (end_dt - anchor) * 4 * 100 <= window_years * DaysPerYear4 * Tolerance90

\* window_end of the anchor, in quarter days, after the clamp to end_dt
WindowEnd(anchor) ==
    LET window_end == 4 * anchor + window_years * DaysPerYear4
    IN IF window_end > 4 * end_dt THEN 4 * end_dt ELSE window_end

\* the window dictionary with window_num counted from 0
FetchWindowFromZero(si, ei) ==
    [window |-> Len(windows),
     start_date |-> hist_data[si].Date, end_date |-> hist_data[ei].Date,
     start_nav |-> hist_data[si].Close, end_nav |-> hist_data[ei].Close,
     cagr |-> Round2(fetch_calculate_cagr(hist_data[si].Close, hist_data[ei].Close,
                                          hist_data[si].Date, hist_data[ei].Date))]

\* the window dictionary appended for the rows at positions si and ei
FetchWindow(si, ei) ==
    [window |-> Len(windows) + 1,
     start_date |-> hist_data[si].Date, end_date |-> hist_data[ei].Date,
     start_nav |-> hist_data[si].Close, end_nav |-> hist_data[ei].Close,
     cagr |-> Round2(fetch_calculate_cagr(hist_data[si].Close, hist_data[ei].Close,
                                          hist_data[si].Date, hist_data[ei].Date))]

\* lines 54-84: the empty check, start_dt, end_dt, the walk's initial state
FetchStart ==
    /\ routine = "fetch" /\ pc = "start"
    /\ IF hist_data = << >>
       THEN /\ result' = ErrorResult("No historical data available for this index")
            /\ pc' = "done"
            /\ stop' = "empty"
            /\ UNCHANGED current_start
       ELSE /\ current_start' = start_dt
            /\ pc' = "loop"
            /\ UNCHANGED << result, stop >>
    /\ UNCHANGED << outerVars, calls, routine, hist_data, window_years, stride_days, start_date, df,
                    start_idx, windows, passed, calc >>

\* the realized endpoints of a step: the rows at positions si and ei of rows
Endpoints(rows, si, ei) ==
    [start_date |-> rows[si].Date, end_date |-> rows[ei].Date,
     start_nav |-> rows[si].Close, end_nav |-> rows[ei].Close]

\* lines 86-149: one iteration of the while loop
FetchStep ==
    /\ routine = "fetch" /\ pc = "loop"
    /\ LET si == LastAtOrBefore(4 * current_start)
           ei == LastAtOrBefore(WindowEnd(current_start))
           actual_days == (WindowEnd(current_start) - 4 * current_start) \div 4
           w == FetchWindow(si, ei)
       IN IF Below98(end_dt - current_start)
          THEN /\ pc' = "stats" /\ stop' = "pre98"
               /\ UNCHANGED << current_start, windows, passed, result >>
          ELSE IF Below98(actual_days)
          THEN /\ pc' = "stats" /\ stop' = "actual98"
               /\ UNCHANGED << current_start, windows, passed, result >>
          ELSE IF si = 0 \/ ei = 0
          THEN /\ current_start' = current_start + stride_days
               /\ UNCHANGED << pc, stop, windows, passed, result >>
          ELSE IF Below90(hist_data[ei].Date - hist_data[si].Date)
          THEN /\ pc' = "stats" /\ stop' = "post90"
               /\ UNCHANGED << current_start, windows, passed, result >>
          ELSE IF hist_data[ei].Date - hist_data[si].Date > 0
                  /\ hist_data[si].Close > 0
                  /\ w.cagr.tag = "complex"
          \* round(cagr, 2) raises TypeError; the except clause returns str(e)
          THEN /\ result' = ErrorResult("type complex doesn't define __round__ method")
               /\ pc' = "done" /\ stop' = "raise"
               /\ passed' = Append(passed, Endpoints(hist_data, si, ei))
               /\ UNCHANGED << current_start, windows >>
          ELSE /\ windows' = IF hist_data[ei].Date - hist_data[si].Date > 0
                                /\ hist_data[si].Close > 0
                             THEN Append(windows, w) ELSE windows
               /\ passed' = Append(passed, Endpoints(hist_data, si, ei))
               /\ current_start' = current_start + stride_days
               /\ IF NearEnd(current_start + stride_days)
                  THEN pc' = "stats" /\ stop' = "near_end"
                  ELSE UNCHANGED << pc, stop >>
               /\ UNCHANGED result
    /\ UNCHANGED << outerVars, calls, routine, hist_data, window_years, stride_days, start_date, df,
                    start_idx, calc >>

\* lines 151-179: the statistics and the returned dictionary
FetchStats ==
    /\ routine = "fetch" /\ pc = "stats"
    /\ result' =
         IF windows # << >>
         THEN IF SeqFilterCagr(windows) # << >>
              THEN [kind |-> "success", error |-> "", total_windows |-> Len(windows),
                    windows |-> windows, valid_cagrs |-> SeqFilterCagr(windows),
                    \* (sum((x - avg_cagr) ** 2 ...) / len(valid_cagrs)) ** 0.5
                    std_cagr |-> StdOf(SeqFilterCagr(windows), 0),
                    analysis_period |-> << windows[1].start_date,
                                           windows[Len(windows)].end_date >>]
              ELSE ErrorResult("No valid CAGR calculations possible")
         ELSE ErrorResult("No rolling windows could be calculated with the given parameters")
    /\ pc' = "done"
    /\ UNCHANGED << outerVars, calls, routine, hist_data, window_years, stride_days, start_date, df,
                    current_start, start_idx, windows, passed, stop, calc >>

-----------------------------------------------------------------------------
(* nse_index_st.calculate_nse_rolling_cagr *)

RECURSIVE SelectFrom(_, _)
\* df[df['Date'] >= d]: the rows on or after day d, labels kept
SelectFrom(rows, d) ==
    IF rows = << >> THEN << >>
    ELSE IF Head(rows).Date >= d THEN << Head(rows) >> \o SelectFrom(Tail(rows), d)
         ELSE SelectFrom(Tail(rows), d)

\* df.reset_index(drop=True): every label becomes the row's position
ResetIndex(rows) ==
    [i \in 1..Len(rows) |-> [Date |-> rows[i].Date, Close |-> rows[i].Close, label |-> i - 1]]

\* window_days = int(window_years * 365.25)
NseWindowDays == (window_years * DaysPerYear4) \div 4

\* the frame after the start_date filter of lines 358-366
NseFrame ==
    IF start_date # << >> THEN ResetIndex(SelectFrom(hist_data, start_date[1]))
    ELSE hist_data

\* lines 345-377: the empty checks, the start_date filter, the data-point check
NseStart ==
    /\ routine = "nse" /\ pc = "start"
    /\ IF hist_data = << >>
       THEN /\ result' = ErrorResult("No historical data available")
            /\ pc' = "done" /\ stop' = "empty"
            /\ UNCHANGED df
       ELSE IF NseFrame = << >>
       THEN /\ result' = ErrorResult("No data available from the specified start date")
            /\ pc' = "done" /\ stop' = "empty"
            /\ UNCHANGED df
       ELSE IF Len(NseFrame) < NseWindowDays \div RoughMonth
       THEN /\ result' = ErrorResult("Insufficient data for rolling analysis")
            /\ pc' = "done" /\ stop' = "insufficient"
            /\ df' = NseFrame
       ELSE /\ df' = NseFrame
            /\ pc' = "loop"
            /\ UNCHANGED << result, stop >>
    /\ start_idx' = 0
    /\ UNCHANGED << outerVars, calls, routine, hist_data, window_years, stride_days, start_date,
                    current_start, windows, passed, calc >>

\* end_candidates = df[df['Date'] >= d]; end_candidates.index[0]: the label of the
\* first row on or after day d, -1 when there is none
FirstLabelFrom(d) ==
    LET S == { i \in 1..Len(df) : df[i].Date >= d }
    IN IF S = {} THEN -1 ELSE df[CHOOSE i \in S : \A j \in S : i <= j].label

\* the window dictionary of lines 391-408; df.iloc[k] is the row at position k + 1
NseWindow(end_idx) ==
    LET s == df[start_idx + 1]
        e == df[end_idx + 1]
    IN [window |-> Len(windows) + 1,
        start_date |-> s.Date, end_date |-> e.Date,
        start_nav |-> s.Close, end_nav |-> e.Close,
        cagr |-> Round2(calculate_nse_cagr(s.Close, e.Close, 4 * (e.Date - s.Date)))]

\* the while loop with `continue` in place of the `break` of line 414
NseStepNoBreak ==
    /\ routine = "nse" /\ pc = "loop"
    /\ IF start_idx >= Len(df)
       THEN /\ pc' = "stats" /\ stop' = "exhausted"
            /\ UNCHANGED << start_idx, windows, passed >>
       ELSE LET end_idx == FirstLabelFrom(df[start_idx + 1].Date + NseWindowDays)
            IN IF end_idx >= 0
               THEN /\ windows' = Append(windows, NseWindow(end_idx))
                    /\ passed' = Append(passed, Endpoints(df, start_idx + 1, end_idx + 1))
                    /\ start_idx' = start_idx + stride_days
                    /\ UNCHANGED << pc, stop >>
               ELSE UNCHANGED << pc, stop, start_idx, windows, passed >>
    /\ UNCHANGED << outerVars, calls, routine, hist_data, window_years, stride_days, start_date, df,
                    current_start, result, calc >>

\* lines 379-414: one iteration of the while loop
NseStep ==
    /\ routine = "nse" /\ pc = "loop"
    /\ IF start_idx >= Len(df)
       THEN /\ pc' = "stats" /\ stop' = "exhausted"
            /\ UNCHANGED << start_idx, windows, passed >>
       ELSE LET end_idx == FirstLabelFrom(df[start_idx + 1].Date + NseWindowDays)
            IN IF end_idx >= 0
               THEN /\ windows' = Append(windows, NseWindow(end_idx))
                    /\ passed' = Append(passed, Endpoints(df, start_idx + 1, end_idx + 1))
                    /\ start_idx' = start_idx + stride_days
                    /\ UNCHANGED << pc, stop >>
               ELSE /\ pc' = "stats" /\ stop' = "no_end"
                    /\ UNCHANGED << start_idx, windows, passed >>
    /\ UNCHANGED << outerVars, calls, routine, hist_data, window_years, stride_days, start_date, df,
                    current_start, result, calc >>

\* lines 416-440: the statistics and the returned dictionary
NseStats ==
    /\ routine = "nse" /\ pc = "stats"
    /\ result' =
         IF windows = << >>
         THEN ErrorResult("Not enough data for rolling CAGR calculation")
         ELSE IF SeqFilterCagr(windows) = << >>
         THEN ErrorResult("No valid CAGR calculations possible")
         ELSE [kind |-> "success", error |-> "", total_windows |-> Len(windows),
               windows |-> windows, valid_cagrs |-> SeqFilterCagr(windows),
               \* np.std(valid_cagrs): the divisor is len(valid_cagrs)
               std_cagr |-> StdOf(SeqFilterCagr(windows), 0),
               analysis_period |-> << windows[1].start_date,
                                      windows[Len(windows)].end_date >>]
    /\ pc' = "done"
    /\ UNCHANGED << outerVars, calls, routine, hist_data, window_years, stride_days, start_date, df,
                    current_start, start_idx, windows, passed, stop, calc >>

-----------------------------------------------------------------------------
(* mf_st.calculate_rolling_cagr *)

\* the dictionary returned when there is no CAGR value, and by the except clause
MfSentinel == [kind |-> "sentinel", error |-> "", total_windows |-> 0,
               windows |-> << >>, valid_cagrs |-> << >>,
               std_cagr |-> ZeroStd, analysis_period |-> << >>]

\* lines 110-121: the frame sorted by date with a fresh index; an empty list has
\* no 'date' column, the KeyError reaches the except clause
MfStart ==
    /\ routine = "mf" /\ pc = "start"
    /\ IF hist_data = << >>
       THEN /\ result' = MfSentinel
            /\ pc' = "done" /\ stop' = "raise"
            /\ UNCHANGED df
       ELSE /\ df' = ResetIndex(hist_data)
            /\ pc' = "loop"
            /\ UNCHANGED << result, stop >>
    /\ start_idx' = 0
    /\ UNCHANGED << outerVars, calls, routine, hist_data, window_years, stride_days, start_date,
                    current_start, windows, passed, calc >>

\* lines 132-136: the first position j after start_idx whose date is on or after
\* start + window_years * 365.25 days (0-based; -1 is None)
MfEndIdx ==
    LET S == { j \in (start_idx + 1)..(Len(df) - 1) :
                 4 * df[j + 1].Date >= 4 * df[start_idx + 1].Date + window_years * DaysPerYear4 }
    IN IF S = {} THEN -1 ELSE CHOOSE j \in S : \A k \in S : j <= k

\* the window_details entry of lines 154-162
MfWindow(end_idx) ==
    LET s == df[start_idx + 1]
        e == df[end_idx + 1]
    IN [window |-> Len(windows) + 1,
        start_date |-> s.Date, end_date |-> e.Date,
        start_nav |-> s.Close, end_nav |-> e.Close,
        cagr |-> Round2(Power(s.Close, e.Close, 4 * (e.Date - s.Date)))]

\* lines 124-162: one iteration of the for loop over range(0, len(df), stride_days)
MfStep ==
    /\ routine = "mf" /\ pc = "loop"
    /\ IF start_idx >= Len(df)
       THEN /\ pc' = "stats" /\ stop' = "exhausted"
            /\ UNCHANGED << start_idx, windows, passed >>
       ELSE IF MfEndIdx < 0
       THEN /\ pc' = "stats" /\ stop' = "no_end"
            /\ UNCHANGED << start_idx, windows, passed >>
       ELSE /\ passed' = Append(passed, Endpoints(df, start_idx + 1, MfEndIdx + 1))
            /\ windows' =
                 IF /\ df[start_idx + 1].Close > 0
                    /\ df[MfEndIdx + 1].Close > 0
                    /\ df[MfEndIdx + 1].Date - df[start_idx + 1].Date > 0
                 THEN Append(windows, MfWindow(MfEndIdx))
                 ELSE windows
            /\ start_idx' = start_idx + stride_days
            /\ UNCHANGED << pc, stop >>
    /\ UNCHANGED << outerVars, calls, routine, hist_data, window_years, stride_days, start_date, df,
                    current_start, result, calc >>

\* lines 164-173: the sentinel or the report
MfStats ==
    /\ routine = "mf" /\ pc = "stats"
    /\ result' =
         IF windows = << >> THEN MfSentinel
         ELSE LET \* the floats of line 150, appended together with the details
                  cagr_values ==
                      [i \in 1..Len(windows) |->
                          Power(windows[i].start_nav, windows[i].end_nav,
                                4 * (windows[i].end_date - windows[i].start_date))]
              IN [kind |-> "success", error |-> "", total_windows |-> Len(windows),
                  windows |-> windows, valid_cagrs |-> cagr_values,
                  \* pd.Series(cagr_values).std(): the divisor is len - 1
                  std_cagr |-> StdOf(cagr_values, 1),
                  analysis_period |-> << >>]
    /\ pc' = "done"
    /\ UNCHANGED << outerVars, calls, routine, hist_data, window_years, stride_days, start_date, df,
                    current_start, start_idx, windows, passed, stop, calc >>

-----------------------------------------------------------------------------
(* A direct call of a calculator *)

Calculators == {"fetch_nifty_data.calculate_cagr", "nse_index_st.calculate_nse_cagr",
                "mf_st.calculate_cagr", "index_cagr_analysis_excel.calculate_cagr"}

\* what the calculator fn returns for the prices and the elapsed time years4;
\* fetch_nifty_data's calculator takes two dates, years4 / 4 days apart
Calculate(fn, start_value, end_value, years4) ==
    CASE fn = "fetch_nifty_data.calculate_cagr" ->
            fetch_calculate_cagr(start_value, end_value, 0, years4 \div 4)
      [] fn = "nse_index_st.calculate_nse_cagr" ->
            calculate_nse_cagr(start_value, end_value, years4)
      [] fn = "mf_st.calculate_cagr" ->
            mf_calculate_cagr(start_value, end_value, years4)
      [] fn = "index_cagr_analysis_excel.calculate_cagr" ->
            excel_calculate_cagr(start_value, end_value, years4)

CalcCall ==
    /\ routine = "calc" /\ pc = "start"
    /\ calc' = [calc EXCEPT !.called = TRUE,
                            !.result = Calculate(calc.fn, calc.start_value,
                                                 calc.end_value, calc.years4)]
    /\ pc' = "done"
    /\ UNCHANGED << outerVars, calls, routine, hist_data, window_years, stride_days, start_date, df,
                    current_start, start_idx, windows, passed, stop, result >>

-----------------------------------------------------------------------------
(* The specification *)

\* no call of fetch_nse_historical_data is under way
NoHistoricalResult == [kind |-> "none", error |-> "", years_fetched |-> 0]

IdleHistory ==
    /\ max_years = 0 /\ years = 0 /\ response = "unbound" /\ attempts = << >>
    /\ last_error_details = << >> /\ historical_result = NoHistoricalResult

\* no call of fetch_nse_indices is under way
NoIndices == [kind |-> "none", error |-> "", names |-> {}]

IdleIndices ==
    /\ api_answer = [kind |-> "raise", stn |-> << >>]
    /\ local_file = [kind |-> "missing", stn |-> << >>]
    /\ indices_pc = "api" /\ indices_result = NoIndices /\ indices_cache = << >>

\* st.session_state after the initialisation at the top of main(); None is
\* << >>, a stored dictionary d is << d >>, and {} is << >> for the parameters
FreshSession ==
    [historical_data_fetched |-> FALSE, current_index |-> "",
     historical_result |-> << >>, rolling_cagr_computed |-> FALSE,
     rolling_cagr_result |-> << >>, rolling_cagr_params |-> << >>]

\* nothing on the page
NothingShown == [historical |-> << >>, rolling |-> << >>]

NoWidgets == [selected_index_name |-> "", window_years |-> 0, rolling_start_date |-> 0]

IdleUi == session = FreshSession /\ widgets = NoWidgets /\ shown = NothingShown

IdleOuter == IdleHistory /\ IdleIndices /\ IdleUi

InitCommon ==
    /\ df = << >>
    /\ pc = "start"
    /\ current_start = 0
    /\ start_idx = 0
    /\ windows = << >>
    /\ passed = << >>
    /\ stop = ""
    /\ result = NoResult
    /\ calls = << >>
    /\ IdleOuter

InitFetch ==
    /\ routine = "fetch"
    /\ hist_data \in ShortSeries \cup CloseSeries \cup LongSet({FALSE})
    /\ window_years \in WindowYears
    /\ stride_days \in FetchStrides
    /\ start_date \in StartDates
    /\ calc = NoCalc
    /\ InitCommon

\* the call on the linear daily series: window_years = 5, stride_days = 30
InitFetchLinear ==
    /\ routine = "fetch"
    /\ hist_data = LinearSeries
    /\ window_years = 5
    /\ stride_days = 30
    /\ start_date = << >>
    /\ calc = NoCalc
    /\ InitCommon

InitNse ==
    /\ routine = "nse"
    /\ hist_data \in LongSet(BOOLEAN) \cup { << >> }
                       \cup { h \in ShortSeries : Len(h) = 1 }
    /\ window_years \in WindowYears
    /\ stride_days \in NseStrides
    /\ start_date \in StartDates
    /\ calc = NoCalc
    /\ InitCommon

InitMf ==
    /\ routine = "mf"
    /\ hist_data \in LongSet({FALSE}) \cup { << >> }
    /\ window_years \in WindowYears
    /\ stride_days = MfStride
    /\ start_date = << >>
    /\ calc = NoCalc
    /\ InitCommon

InitCalc ==
    /\ routine = "calc"
    /\ hist_data = << >>
    /\ window_years = 1
    /\ stride_days = 1
    /\ start_date = << >>
    /\ calc \in [fn : Calculators, start_value : CalcPrices, end_value : CalcPrices,
                 years4 : CalcYears4, called : {FALSE}, result : {None}]
    \* two dates are a whole number of days apart
    /\ calc.fn = "fetch_nifty_data.calculate_cagr" => calc.years4 % 4 = 0
    /\ InitCommon

Init == InitFetch \/ InitNse \/ InitMf \/ InitCalc

Next ==
    \/ FetchStart \/ FetchStep \/ FetchStats
    \/ NseStart \/ NseStep \/ NseStats
    \/ MfStart \/ MfStep \/ MfStats
    \/ CalcCall

Spec == Init /\ [][Next]_vars

\* the arguments of the running call
Args == [window_years |-> window_years, stride_days |-> stride_days,
         start_date |-> start_date]

\* a later call whose list of windows is not a fresh one
ComputeAgainKeepingWindows ==
    /\ routine \in {"fetch", "nse", "mf"} /\ pc = "done"
    /\ Len(calls) < MaxCalls - 1
    /\ calls' = Append(calls, [args |-> Args, report |-> result])
    /\ window_years' \in WindowYears
    /\ df' = << >> /\ pc' = "start" /\ current_start' = 0 /\ start_idx' = 0
    /\ passed' = << >> /\ stop' = "" /\ result' = NoResult
    /\ UNCHANGED << outerVars, routine, hist_data, stride_days, start_date, windows, calc >>

\* the dashboard's compute button pressed once more: the routine is called again
\* on the same series, with the same window_years or another one; every local
\* of the routine is a fresh one
ComputeAgain ==
    /\ routine \in {"fetch", "nse", "mf"} /\ pc = "done"
    /\ Len(calls) < MaxCalls - 1
    /\ calls' = Append(calls, [args |-> Args, report |-> result])
    /\ window_years' \in WindowYears
    /\ df' = << >> /\ pc' = "start" /\ current_start' = 0 /\ start_idx' = 0
    /\ windows' = << >> /\ passed' = << >> /\ stop' = "" /\ result' = NoResult
    /\ UNCHANGED << outerVars, routine, hist_data, stride_days, start_date, calc >>

NextOfSession == Next \/ ComputeAgain

\* a session of the dashboard: calls of a routine one after the other
SessionSpec == Init /\ [][NextOfSession]_vars

\* the loop of every routine is scheduled until it returns
FairSpec == Spec /\ WF_vars(Next)

\* the calls of Spec and the call on the linear daily series
LinearSpec == (Init \/ InitFetchLinear) /\ [][Next]_vars

-----------------------------------------------------------------------------
(* nse_index_st.fetch_nse_historical_data *)

MaxYears == 3       \* largest max_years of a call

\* no rolling routine and no calculator is called
IdleRolling ==
    /\ hist_data = << >> /\ window_years = 1 /\ stride_days = 1 /\ start_date = << >>
    /\ df = << >> /\ pc = "start" /\ current_start = 0 /\ start_idx = 0
    /\ windows = << >> /\ passed = << >> /\ stop = "" /\ result = NoResult
    /\ calc = NoCalc /\ calls = << >>

\* what one request of the loop body can meet:
\*   "raise"       requests.get raises (no connection, timeout)
\*   "status"      a response whose status_code is not 200
\*   "bad_json"    a response with status 200 whose body makes response.json(), or
\*                 the parsing of an item, raise
\*   "no_key"      JSON without data.grapthData
\*   "empty"       an empty grapthData list
\*   "short_items" a grapthData list none of whose items has two elements
\*   "data"        a grapthData list with usable items
RequestOutcomes == {"raise", "status", "bad_json", "no_key", "empty", "short_items", "data"}

\* the dictionary of lines 270-285
HistoricalData(y) == [kind |-> "data", error |-> "", years_fetched |-> y]

\* the dictionary of lines 308-311
AllRangesFailed ==
    [kind |-> "error", years_fetched |-> 0,
     error |-> "Failed to fetch historical data after trying all year ranges"]

\* the dictionary of lines 313-320, returned by the outer except clause
OuterError ==
    [kind |-> "error", error |-> "Error fetching historical data", years_fetched |-> 0]

\* lines 221-306: one iteration of `for years in range(max_years, 0, -1)`
HistoryAttempt ==
    /\ routine = "history" /\ historical_result.kind = "none" /\ years >= 1
    /\ \E o \in RequestOutcomes :
          /\ attempts' = Append(attempts, [years |-> years, outcome |-> o])
          /\ IF o = "raise"
             \* the except clause of line 287 reads the local `response`
             \* (getattr(response, 'status_code', 'N/A')); when no request has
             \* returned yet the name is unbound, the UnboundLocalError leaves the
             \* loop and reaches the except clause of line 313
             THEN IF response = "unbound"
                  THEN /\ historical_result' = OuterError
                       /\ UNCHANGED << years, response, last_error_details >>
                  ELSE /\ last_error_details' = << years >>
                       /\ years' = years - 1
                       /\ UNCHANGED << response, historical_result >>
             ELSE IF o = "bad_json"
             THEN /\ response' = "bound"
                  /\ last_error_details' = << years >>
                  /\ years' = years - 1
                  /\ UNCHANGED historical_result
             ELSE IF o = "data"
             THEN /\ response' = "bound"
                  /\ historical_result' = HistoricalData(years)
                  /\ UNCHANGED << years, last_error_details >>
             \* not 200, no grapthData, `if not graph_data: continue`, empty df_data
             ELSE /\ response' = "bound"
                  /\ years' = years - 1
                  /\ UNCHANGED << last_error_details, historical_result >>
    /\ UNCHANGED << max_years, rollVars, listVars, uiVars >>

\* lines 308-311: the loop has used up its range
HistoryExhausted ==
    /\ routine = "history" /\ historical_result.kind = "none" /\ years = 0
    /\ historical_result' = AllRangesFailed
    /\ UNCHANGED << max_years, years, response, attempts, last_error_details, rollVars,
                    listVars, uiVars >>

InitHistory ==
    /\ routine = "history"
    /\ max_years \in 1..MaxYears
    /\ years = max_years
    /\ response = "unbound" /\ attempts = << >> /\ last_error_details = << >>
    /\ historical_result = NoHistoricalResult
    /\ IdleRolling /\ IdleIndices /\ IdleUi

NextHistory == HistoryAttempt \/ HistoryExhausted

\* calls of fetch_nse_historical_data against a server that answers each request
\* in any of the ways of RequestOutcomes
HistorySpec == InitHistory /\ [][NextHistory]_vars

-----------------------------------------------------------------------------
(* nse_index_st.fetch_nse_indices and load_local_nse_indices *)

MaxItems == 2       \* longest 'stn' list of an answer or of the local file

\* an item of a 'stn' list: "short" has fewer than two elements, the others are
\* [indexSymbol, indexName] pairs with different names
Items == {"short", "NIFTY 50", "NIFTY BANK"}

StnLists == UNION { [1..n -> Items] : n \in 0..MaxItems }

\* what the request of line 157 can meet:
\*   "raise"    requests.get raises
\*   "status"   a response whose status_code is not 200
\*   "bad_json" status 200 and a body that makes response.json() raise
\*   "no_stn"   status 200 and JSON without the key 'stn'
\*   "stn"      status 200 and JSON with the list stn
ApiAnswers ==
    { [kind |-> k, stn |-> << >>] : k \in {"raise", "status", "bad_json", "no_stn"} }
    \cup { [kind |-> "stn", stn |-> l] : l \in StnLists }

\* what the local file can be: not there, not JSON, JSON without 'stn', JSON
\* with the list stn
LocalFiles ==
    { [kind |-> k, stn |-> << >>] : k \in {"missing", "bad_json", "no_stn"} }
    \cup { [kind |-> "stn", stn |-> l] : l \in StnLists }

\* lines 165-172 and 123-130: the dictionary built from a 'stn' list, as the set
\* of its keys; an item with fewer than two elements is skipped
ParseStn(stn) == { stn[i] : i \in { j \in 1..Len(stn) : stn[j] # "short" } }

Mapping(names) == [kind |-> "mapping", error |-> "", names |-> names]

\* lines 204-209
BothFailed ==
    [kind |-> "error", error |-> "Both NSE API and local fallback failed", names |-> {}]

\* lines 109-145: load_local_nse_indices; an error dictionary when the file is
\* missing or cannot be read
load_local_nse_indices ==
    IF local_file.kind = "missing"
    THEN [kind |-> "error", error |-> "Local file not found", names |-> {}]
    ELSE IF local_file.kind = "bad_json"
    THEN [kind |-> "error", error |-> "Error reading local NSE indices file", names |-> {}]
    ELSE Mapping(ParseStn(local_file.stn))

\* lines 155-194 on a call st.cache_data has no value for: the request and the
\* parsing of its answer
IndicesApi ==
    /\ routine = "indices" /\ indices_pc = "api" /\ indices_cache = << >>
    /\ IF api_answer.kind \in {"no_stn", "stn"}
       THEN /\ indices_result' = Mapping(ParseStn(api_answer.stn))
            /\ indices_cache' = << Mapping(ParseStn(api_answer.stn)) >>
            /\ indices_pc' = "done"
       ELSE /\ indices_pc' = "fallback"
            /\ UNCHANGED << indices_result, indices_cache >>
    /\ UNCHANGED << api_answer, local_file, rollVars, histVars, uiVars >>

\* lines 196-211: the local fallback
IndicesFallback ==
    /\ routine = "indices" /\ indices_pc = "fallback"
    /\ LET local_result == load_local_nse_indices
           value == IF local_result.kind # "error" THEN local_result ELSE BothFailed
       IN /\ indices_result' = value
          /\ indices_cache' = << value >>
    /\ indices_pc' = "done"
    /\ UNCHANGED << api_answer, local_file, rollVars, histVars, uiVars >>

\* a later rerun of the page calls the function again, the API and the file
\* being in any state by then: st.cache_data (line 147) returns the stored value
IndicesCached ==
    /\ routine = "indices" /\ indices_pc \in {"done", "cached"} /\ indices_cache # << >>
    /\ api_answer' \in ApiAnswers /\ local_file' \in LocalFiles
    /\ indices_result' = indices_cache[1]
    /\ indices_pc' = "cached"
    /\ UNCHANGED << indices_cache, rollVars, histVars, uiVars >>

InitIndices ==
    /\ routine = "indices"
    /\ api_answer \in ApiAnswers /\ local_file \in LocalFiles
    /\ indices_pc = "api" /\ indices_result = NoIndices /\ indices_cache = << >>
    /\ IdleRolling /\ IdleHistory /\ IdleUi

NextIndices == IndicesApi \/ IndicesFallback \/ IndicesCached

IndicesSpec == InitIndices /\ [][NextIndices]_vars

-----------------------------------------------------------------------------
(* The dashboards: index_st.main and nse_index_st.main.  One action is one    *)
(* rerun of the script.  A stored result carries what it was obtained for.    *)

IndexNames == {"NIFTY 50", "NIFTY BANK"}    \* the options of the selectbox
SliderYears == {2, 3}                       \* values of the window slider
PickerDates == {0, 15}                      \* values of the date input
Dashboards == {"index_st.main", "nse_index_st.main"}

\* the index check that sets the current index and keeps what is stored
IndexCheckKeepingResults(s, selected_index_name) ==
    IF s.current_index # selected_index_name
    THEN [s EXCEPT !.current_index = selected_index_name]
    ELSE s

\* index_st lines 219-226, nse_index_st lines 561-568: the reset when the
\* selected index is not the stored one
IndexCheck(s, selected_index_name) ==
    IF s.current_index # selected_index_name
    THEN [historical_data_fetched |-> FALSE, current_index |-> selected_index_name,
          historical_result |-> << >>, rolling_cagr_computed |-> FALSE,
          rolling_cagr_result |-> << >>, rolling_cagr_params |-> << >>]
    ELSE s

\* index_st lines 228-236, nse_index_st lines 570-578: the fetch button; ok tells
\* whether the fetched dictionary has no 'error' key
FetchClick(s, fetch_data, selected_index_name, ok) ==
    IF fetch_data
    THEN [s EXCEPT !.historical_result = << [index |-> selected_index_name, ok |-> ok] >>,
                   !.historical_data_fetched = TRUE]
    ELSE s

\* the parameter check left out
ParamsCheckSkipped(s, current_params) == s

\* index_st lines 351-353, nse_index_st lines 716-718
ParamsCheck(s, current_params) ==
    IF s.rolling_cagr_params # << current_params >>
    THEN [s EXCEPT !.rolling_cagr_computed = FALSE, !.rolling_cagr_result = << >>]
    ELSE s

\* index_st lines 355-369, nse_index_st lines 720-735: the compute button
ComputeClick(s, compute_rolling, current_params, ok) ==
    IF compute_rolling
    THEN [s EXCEPT !.rolling_cagr_result = << [params |-> current_params, ok |-> ok] >>,
                   !.rolling_cagr_computed = TRUE,
                   !.rolling_cagr_params = << current_params >>]
    ELSE s

\* a rerun that finds no index to select: the script returns in the sidebar
\* (index_st line 182, nse_index_st line 540)
RerunWithoutIndices ==
    /\ routine \in Dashboards
    /\ shown' = NothingShown
    /\ UNCHANGED << session, widgets, rollVars, histVars, listVars >>

\* the refresh button of the sidebar: st.cache_data.clear() and st.rerun()
\* before the main content area is reached
RerunForRefresh ==
    /\ routine \in Dashboards
    /\ \E name \in IndexNames :
          widgets' = [widgets EXCEPT !.selected_index_name = name]
    /\ shown' = NothingShown
    /\ UNCHANGED << session, rollVars, histVars, listVars >>

\* a rerun that reaches the main content area with the index the selectbox
\* holds, a click on the fetch button or none, and a fetch that succeeds or not;
\* the stored historical result is missing or an error, the rolling section is
\* not reached
RerunWithoutRolling ==
    /\ routine \in Dashboards
    /\ \E name \in IndexNames, fetch_data \in BOOLEAN, ok \in BOOLEAN :
          LET s1 == IndexCheck(session, name)
              s2 == FetchClick(s1, fetch_data, name, ok)
          IN /\ ~(s2.historical_data_fetched /\ s2.historical_result # << >>
                    /\ s2.historical_result[1].ok)
             /\ session' = s2
             /\ widgets' = [widgets EXCEPT !.selected_index_name = name]
             /\ shown' = [historical |-> IF s2.historical_data_fetched
                                         THEN s2.historical_result ELSE << >>,
                          rolling |-> << >>]
    /\ UNCHANGED << rollVars, histVars, listVars >>

\* a rerun that shows a fetched series and reaches the rolling section: the
\* slider, the date input, the compute button (not clicked together with the
\* fetch button), the parameter check, the computation and the display
RerunWithRolling ==
    /\ routine \in Dashboards
    /\ \E name \in IndexNames, fetch_data \in BOOLEAN, ok \in BOOLEAN,
          window \in SliderYears, date \in PickerDates, compute_rolling \in BOOLEAN :
          LET s1 == IndexCheck(session, name)
              s2 == FetchClick(s1, fetch_data, name, TRUE)
              current_params == [window_years |-> window, start_date |-> date,
                                 index |-> name]
              s3 == ParamsCheck(s2, current_params)
              s4 == ComputeClick(s3, compute_rolling, current_params, ok)
          IN /\ ~(fetch_data /\ compute_rolling)
             /\ s2.historical_data_fetched /\ s2.historical_result # << >>
             /\ s2.historical_result[1].ok
             /\ session' = s4
             /\ widgets' = [selected_index_name |-> name, window_years |-> window,
                            rolling_start_date |-> date]
             /\ shown' = [historical |-> s4.historical_result,
                          rolling |-> IF s4.rolling_cagr_computed
                                      THEN s4.rolling_cagr_result ELSE << >>]
    /\ UNCHANGED << rollVars, histVars, listVars >>

InitDashboard ==
    /\ routine \in Dashboards
    /\ IdleUi
    /\ IdleRolling /\ IdleHistory /\ IdleIndices

NextDashboard ==
    RerunWithoutIndices \/ RerunForRefresh \/ RerunWithoutRolling \/ RerunWithRolling

\* a session of a dashboard: reruns with any widget events, one after the other
DashboardSpec == InitDashboard /\ [][NextDashboard]_vars

-----------------------------------------------------------------------------
(* Notions the properties share *)

Rolling == routine \in {"fetch", "nse", "mf"}
Returned == pc = "done"
Success == Returned /\ result.kind = "success"

\* start_price > 0 and end_price > 0 and elapsed_years > 0
CagrInputsValid(p) == p.start_nav > 0 /\ p.end_nav > 0 /\ p.end_date - p.start_date > 0

\* the floats a and b come from the same prices and the same elapsed time
OfSameWindow(a, b) == a.start = b.start /\ a.end = b.end /\ a.years4 = b.years4

\* latest date - earliest date of the series
Span == hist_data[Len(hist_data)].Date - hist_data[1].Date

\* the anchors start, start + stride, ... of fetch whose remaining span passes the
\* 98% pre-check
FetchAnchors ==
    { a \in start_dt..end_dt :
        (a - start_dt) % stride_days = 0 /\ (end_dt - a) * 400 >= window_years * 1461 * 98 }

\* the realized span of the anchor's window is at least 90% of window_years
Survives(a) ==
    LET si == LastAtOrBefore(4 * a)
        ei == LastAtOrBefore(WindowEnd(a))
    IN (hist_data[ei].Date - hist_data[si].Date) * 400 >= window_years * 1461 * 90

-----------------------------------------------------------------------------
(* Properties *)

\* C1: every calculator returns None whenever start_price <= 0 or end_price <= 0
\* or years <= 0.
C1_CalculatorReturnsNone ==
    (routine = "calc" /\ calc.called
        /\ (calc.start_value <= 0 \/ calc.end_value <= 0 \/ calc.years4 <= 0))
    => calc.result = None

\* C2: in every report, a window's cagr is present exactly when its start price,
\* its end price and its elapsed years are all positive.
C2_CagrPresentIffValid ==
    (Rolling /\ Success)
    => \A i \in 1..Len(result.windows) :
          (result.windows[i].cagr # None) <=> CagrInputsValid(result.windows[i])

\* C3: every step that passed the gates has its window in the report, with or
\* without a cagr; total_windows counts them all; the statistics take exactly the
\* windows whose cagr is present.
C3_EveryPassedWindowEmitted ==
    (Rolling /\ Success)
    => /\ result.total_windows = Len(passed)
       /\ Len(result.windows) = Len(passed)
       /\ \A i \in 1..Len(passed) :
             /\ result.windows[i].start_date = passed[i].start_date
             /\ result.windows[i].end_date = passed[i].end_date
       /\ Len(result.valid_cagrs) = Len(SeqFilterCagr(result.windows))
       /\ \A i \in 1..Len(result.valid_cagrs) :
             OfSameWindow(result.valid_cagrs[i], SeqFilterCagr(result.windows)[i])

\* C4: when one passed window has invalid CAGR inputs and another has valid ones,
\* the call returns a success report that counts every passed window, holds the
\* invalid ones with cagr None and takes its statistics from the valid ones only.
C4_WindowFailureIsLocal ==
    (Rolling /\ Returned
        /\ (\E i \in 1..Len(passed) : ~CagrInputsValid(passed[i]))
        /\ (\E j \in 1..Len(passed) : CagrInputsValid(passed[j])))
    => /\ result.kind = "success"
       /\ result.total_windows = Len(passed)
       /\ Len(result.windows) = Len(passed)
       /\ \A i \in 1..Len(passed) :
             ~CagrInputsValid(passed[i]) => result.windows[i].cagr = None
       /\ Len(result.valid_cagrs)
            = Cardinality({ j \in 1..Len(passed) : CagrInputsValid(passed[j]) })

\* C5: every window of a report ends after it starts and spans at least 90% of
\* window_years.
C5_EmittedWindowSpan ==
    (Rolling /\ Success)
    => \A i \in 1..Len(result.windows) :
          /\ result.windows[i].end_date > result.windows[i].start_date
          /\ (result.windows[i].end_date - result.windows[i].start_date) * 400
                >= window_years * 1461 * 90

\* C6: total_windows of fetch is the number of anchors that pass the 98% pre-check
\* and the 90% post-check.
C6_TotalIsSurvivorCount ==
    (routine = "fetch" /\ Success)
    => result.total_windows = Cardinality({ a \in FetchAnchors : Survives(a) })

\* C7: a 90% rejection never ends the walk of fetch while a later anchor still
\* passes both gates.
C7_RejectionKeepsWalking ==
    ~(/\ routine = "fetch"
      /\ stop = "post90"
      /\ \E a \in FetchAnchors : a > current_start /\ Survives(a))

\* C8: the walk of every routine terminates: every call returns.
C8_WalkTerminates == <>(pc = "done")

C8_Witness == Rolling /\ Returned /\ Len(passed) >= 2 /\ stride_days >= 1

\* C9 as stated, for fetch and a series of positive prices: a series whose span
\* is shorter than window_years * 365.25 days yields the no-windows failure, never
\* a success report.
C9_ShortSpanNoWindows ==
    (routine = "fetch" /\ Returned /\ hist_data # << >>
        /\ (\A i \in 1..Len(hist_data) : hist_data[i].Close > 0)
        /\ Span * 4 < window_years * 1461)
    => /\ result.kind = "error"
       /\ result.error = "No rolling windows could be calculated with the given parameters"

\* C9 amended: a series whose span is shorter than 98% of window_years * 365.25
\* days never yields a success report; fetch returns its no-windows failure, nse
\* one of its failures for too little data.
C9_ShortSpanFails ==
    (routine \in {"fetch", "nse"} /\ Returned /\ hist_data # << >>
        /\ Span * 400 < window_years * 1461 * 98)
    => /\ result.kind = "error"
       /\ routine = "fetch"
            => result.error = "No rolling windows could be calculated with the given parameters"
       /\ routine = "nse"
            => result.error \in {"Not enough data for rolling CAGR calculation",
                                 "Insufficient data for rolling analysis",
                                 "No data available from the specified start date"}

C9_Witness ==
    /\ routine = "fetch" /\ Returned /\ Len(hist_data) >= 2
    /\ Span * 400 < window_years * 1461 * 98
    /\ stop = "pre98"

\* C10: every call returns a success report with at least one window or a tagged
\* failure, never a success-shaped dictionary holding sentinel values.
C10_SuccessOrTaggedFailure ==
    (Rolling /\ Returned)
    => \/ result.kind = "success" /\ result.total_windows >= 1
       \/ result.kind = "error"

-----------------------------------------------------------------------------
(* The failure of a returned error, by its message *)

InsufficientDataMessages ==
    {"No historical data available for this index",
     "No historical data available",
     "No data available from the specified start date",
     "Insufficient data for rolling analysis"}

NoWindowsPossibleMessages ==
    {"No rolling windows could be calculated with the given parameters",
     "Not enough data for rolling CAGR calculation"}

NoValidCAGRMessages == {"No valid CAGR calculations possible"}

FailureTag ==
    IF result.kind # "error" THEN "none"
    ELSE IF result.error \in InsufficientDataMessages THEN "InsufficientData"
    ELSE IF result.error \in NoWindowsPossibleMessages THEN "NoWindowsPossible"
    ELSE IF result.error \in NoValidCAGRMessages THEN "NoValidCAGR"
    ELSE "untagged"

\* C11: an empty series and a series of exactly one observation yield the
\* InsufficientData failure, not the NoWindowsPossible failure of a longer series
\* that is too short.
C11_EmptyOrSingleIsInsufficientData ==
    (routine \in {"fetch", "nse"} /\ Returned /\ Len(hist_data) <= 1)
    => FailureTag = "InsufficientData"

\* C12: when the walk ran and at least one of its steps passed the gates but no
\* passed window has valid CAGR inputs, the call returns the NoValidCAGR failure;
\* when no step passed the gates it returns NoWindowsPossible.
C12_NoValidCagrOrNoWindows ==
    (routine \in {"fetch", "nse"} /\ Returned /\ stop \notin {"empty", "insufficient"})
    => /\ (passed # << >> /\ \A i \in 1..Len(passed) : ~CagrInputsValid(passed[i]))
            => FailureTag = "NoValidCAGR"
       /\ passed = << >> => FailureTag = "NoWindowsPossible"

C14_WindowsInIndexOrder ==
    (routine \in {"fetch", "nse"} /\ Success)
    => /\ Len(result.windows) = result.total_windows
       /\ \A i \in 1..Len(result.windows) : result.windows[i].window = i
       /\ \A i, j \in 1..Len(result.windows) :
             i < j => result.windows[i].start_date <= result.windows[j].start_date
       /\ result.analysis_period
            = << result.windows[1].start_date,
                 result.windows[result.total_windows].end_date >>

C14_Witness ==
    /\ routine \in {"fetch", "nse"} /\ Success
    /\ result.total_windows >= 3
    /\ result.windows[1].start_date < result.windows[3].start_date
    /\ result.analysis_period[1] < result.analysis_period[2]

\* C15: the standard deviation of every success report of the three routines is
\* the population standard deviation of the valid cagr values (divisor N); a
\* report with exactly one valid window has the standard deviation 0.
C15_PopulationStd ==
    (Rolling /\ Success)
    => /\ result.std_cagr = StdOf(result.valid_cagrs, 0)
       /\ Len(result.valid_cagrs) = 1 => result.std_cagr = ZeroStd

\* the prices of the series rise, fall, stay from each observation to the next
StrictlyIncreasing ==
    \A i \in 1..(Len(hist_data) - 1) : hist_data[i].Close < hist_data[i + 1].Close
StrictlyDecreasing ==
    \A i \in 1..(Len(hist_data) - 1) : hist_data[i].Close > hist_data[i + 1].Close
ConstantSeries ==
    \A i \in 1..(Len(hist_data) - 1) : hist_data[i].Close = hist_data[i + 1].Close

\* C16: in every success report of fetch and nse every reported cagr is > 0 when
\* the prices of the series strictly increase, < 0 when they strictly decrease,
\* and 0 when they are constant.
C16_SignFollowsSeries ==
    (routine \in {"fetch", "nse"} /\ Success)
    => \A i \in 1..Len(result.windows) :
          result.windows[i].cagr # None
          => /\ StrictlyIncreasing => Sign(result.windows[i].cagr) = 1
             /\ StrictlyDecreasing => Sign(result.windows[i].cagr) = -1
             /\ ConstantSeries => Sign(result.windows[i].cagr) = 0

Ceiling(n, d) == (n + d - 1) \div d

\* a sufficient test of a >= b for two floats of growing prices (end >= start > 0)
\* that are both rounded or both not (rounding keeps the order): the growth of a
\* is at least the growth of b, and either a's time is not longer, or
\*   years4(b) * ln(growth(a) / growth(b)) >= (years4(a) - years4(b)) * ln(growth(b)),
\* decided in thousandths with the bounds 2 (t - 1) / (t + 1) <= ln t and
\* ln t <= (t * t - 1) / (2 t) for t >= 1
SurelyGeq(a, b) ==
    LET Un == a.end * b.start - b.end * a.start
        Ud == b.end * a.start
        Lo == (2 * Un * 1000) \div (2 * Ud + Un)
        Hi == Ceiling(Ceiling((b.end - b.start) * 1000, b.start) * (b.end + b.start),
                      2 * b.end)
    IN /\ a.tag = b.tag
       /\ a.start > 0 /\ b.start > 0 /\ b.end >= b.start
       /\ Un >= 0
       /\ \/ a.years4 <= b.years4
          \/ b.years4 * Lo >= (a.years4 - b.years4) * Hi

\* C17: the call of fetch on the linear daily series from 01-01-2015 to 01-01-2025
\* (100 to 300) with window_years = 5, stride_days = 30 and no start_date returns
\* a success report with about 61 windows (61 give or take 3), every cagr is
\* strictly positive, and no window's cagr exceeds that of the window before it.
C17_LinearSeriesReport ==
    (routine = "fetch" /\ window_years = 5 /\ stride_days = 30 /\ start_date = << >>
        /\ Returned /\ hist_data = LinearSeries)
    => /\ result.kind = "success"
       /\ result.total_windows \in 58..64
       /\ \A i \in 1..Len(result.windows) :
             /\ result.windows[i].cagr # None
             /\ Sign(result.windows[i].cagr) = 1
       /\ \A i \in 1..(Len(result.windows) - 1) :
             SurelyGeq(result.windows[i].cagr, result.windows[i + 1].cagr)

\* the report of that call: 63 windows, the last two ending on the last day
C17_Witness ==
    /\ routine = "fetch" /\ window_years = 5 /\ Success
    /\ result.total_windows = 63
    /\ result.windows[62].end_date = 3653 /\ result.windows[63].end_date = 3653
    /\ result.windows[61].end_date < 3653
    /\ result.windows[63].cagr.years4 < result.windows[62].cagr.years4

\* bounds of a * b for two numbers in millionths, from above and from below
MulUp(a, b) ==
    LET a1 == a \div 1000  a0 == a % 1000
        b1 == b \div 1000  b0 == b % 1000
    IN a1 * b1 + Ceiling(a1 * b0 + a0 * b1, 1000) + Ceiling(a0 * b0, 1000000)
MulDown(a, b) ==
    LET a1 == a \div 1000  a0 == a % 1000
        b1 == b \div 1000  b0 == b % 1000
    IN a1 * b1 + ((a1 * b0 + a0 * b1) \div 1000) + ((a0 * b0) \div 1000000)

RECURSIVE PowUp(_, _)
PowUp(x, n) == IF n = 1 THEN x ELSE MulUp(x, PowUp(x, n - 1))
RECURSIVE PowDown(_, _)
PowDown(x, n) == IF n = 1 THEN x ELSE MulDown(x, PowDown(x, n - 1))

\* the float x, of a whole number of years, is within 0.005 of k / 100:
\*   (1 + (k - 0.5) / 10000) ** years <= end / start < (1 + (k + 0.5) / 10000) ** years
IsAbout(x, k) ==
    LET whole_years == x.years4 \div 1461
    IN /\ x.tag = "float" /\ x.years4 > 0 /\ x.years4 % 1461 = 0
       /\ PowUp(1000000 + 100 * k - 50, whole_years) * x.start <= x.end * 1000000
       /\ x.end * 1000000 < PowDown(1000000 + 100 * k + 50, whole_years) * x.start

\* C18: for start_price > 0, end_price > 0 and years > 0 every calculator returns
\* ((end_price / start_price) ** (1 / years) - 1) * 100, for a falling price as
\* for a rising one; for the prices 100 and 200 and 5 years this is about 14.87.
C18_CalculatorFormula ==
    (routine = "calc" /\ calc.called
        /\ calc.start_value > 0 /\ calc.end_value > 0 /\ calc.years4 > 0)
    => /\ calc.result = Float(calc.start_value, calc.end_value, calc.years4)
       /\ (calc.start_value = 100 /\ calc.end_value = 200 /\ calc.years4 = 5 * 1461)
            => IsAbout(calc.result, 1487)

\* the call cagr(100, 200, 5) of nse_index_st's calculator has returned a float
C18_Witness ==
    /\ routine = "calc" /\ calc.called
    /\ calc.fn = "nse_index_st.calculate_nse_cagr"
    /\ calc.start_value = 100 /\ calc.end_value = 200 /\ calc.years4 = 5 * 1461
    /\ calc.result.tag = "float"

-----------------------------------------------------------------------------
(* floor alignment *)

\* the observation (d, price) is the latest one of the series on or before the
\* instant t4 (quarter days): it is in the series, it is not after t4, and no
\* observation after it is on or before t4
LatestObservationAtOrBefore(d, price, t4) ==
    /\ \E i \in 1..Len(hist_data) : hist_data[i].Date = d /\ hist_data[i].Close = price
    /\ 4 * d <= t4
    /\ \A j \in 1..Len(hist_data) : hist_data[j].Date > d => 4 * hist_data[j].Date > t4

\* the anchor's target end in quarter days: anchor + window_years * 365.25 days,
\* and the latest date of the series when that lies beyond it
ClampedTargetEnd(anchor) ==
    LET target == 4 * anchor + window_years * DaysPerYear4
        latest == CHOOSE d \in { hist_data[i].Date : i \in 1..Len(hist_data) } :
                      \A i \in 1..Len(hist_data) : hist_data[i].Date <= d
    IN IF target > 4 * latest THEN 4 * latest ELSE target

\* C19: whenever fetch_nifty_data.calculate_rolling_cagr appends a window for the
\* anchor current_start, the window's start observation is the latest observation
\* dated on or before the anchor and its end observation is the latest
\* observation dated on or before the clamped target end; no later observation
\* of the series qualifies.
C19_FloorAlignment ==
    [][(routine = "fetch" /\ Len(windows') > Len(windows))
        => LET w == windows'[Len(windows')]
           IN /\ LatestObservationAtOrBefore(w.start_date, w.start_nav, 4 * current_start)
              /\ LatestObservationAtOrBefore(w.end_date, w.end_nav,
                                             ClampedTargetEnd(current_start))]_vars

\* a window of fetch_nifty_data whose end was moved back to an earlier
\* observation although later observations exist, and a window whose anchor,
\* one stride after the previous one, was moved back to the same observation
C19_Witness ==
    /\ routine = "fetch" /\ pc = "done" /\ result.kind = "success"
    /\ \E k \in 1..Len(windows) :
          /\ 4 * (windows[k].end_date - windows[k].start_date) < window_years * DaysPerYear4
          /\ \E j \in 1..Len(hist_data) : hist_data[j].Date > windows[k].end_date
    /\ \E k \in 2..Len(windows) : windows[k].start_date = windows[k - 1].start_date

-----------------------------------------------------------------------------
(* ceiling alignment of the window end *)

\* the observation (d, price) is the earliest one of the series on or after the
\* instant t4 (quarter days)
EarliestObservationAtOrAfter(d, price, t4) ==
    /\ \E i \in 1..Len(hist_data) : hist_data[i].Date = d /\ hist_data[i].Close = price
    /\ 4 * d >= t4
    /\ \A j \in 1..Len(hist_data) : hist_data[j].Date < d => 4 * hist_data[j].Date < t4

\* start + window days in quarter days, with the routine's own window_days:
\* int(window_years * 365.25) in nse_index_st, window_years * 365.25 in mf_st
TargetEnd(start) ==
    IF routine = "nse" THEN 4 * (start + NseWindowDays)
    ELSE 4 * start + window_years * DaysPerYear4

\* C20: in nse_index_st.calculate_nse_rolling_cagr and mf_st.calculate_rolling_cagr
\* the end observation of every window is the earliest observation dated on or
\* after the window's start date plus the window days; a window is produced only
\* when such an observation exists.
C20_CeilingEndAlignment ==
    routine \in {"nse", "mf"}
    => \A k \in 1..Len(windows) :
          EarliestObservationAtOrAfter(windows[k].end_date, windows[k].end_nav,
                                       TargetEnd(windows[k].start_date))

-----------------------------------------------------------------------------
(* the remaining-span gate and the clamp *)

\* the latest date of the series
LatestSeriesDate ==
    CHOOSE d \in { hist_data[i].Date : i \in 1..Len(hist_data) } :
        \A i \in 1..Len(hist_data) : hist_data[i].Date <= d

\* C21: whenever fetch_nifty_data.calculate_rolling_cagr appends a window for the
\* anchor current_start, the days from the anchor to the latest date of the series
\* are at least 98% of window_years * 365.25; and when the anchor plus the window
\* length lies after the latest date, the window's end_date is the latest date.
C21_RemainingSpanAndClamp ==
    [][(routine = "fetch" /\ Len(windows') > Len(windows))
        => LET w == windows'[Len(windows')]
           IN /\ (LatestSeriesDate - current_start) * 4 * 100
                    >= window_years * DaysPerYear4 * Tolerance98
              /\ (4 * current_start + window_years * DaysPerYear4 > 4 * LatestSeriesDate)
                    => w.end_date = LatestSeriesDate]_vars

\* a report of fetch_nifty_data with a window whose target end lay after the
\* latest date of the series and which ends on that date
C21_Witness ==
    /\ routine = "fetch" /\ pc = "done" /\ result.kind = "success"
    /\ \E k \in 1..Len(result.windows) :
          /\ 4 * result.windows[k].start_date + window_years * DaysPerYear4
                > 4 * LatestSeriesDate
          /\ result.windows[k].end_date = LatestSeriesDate

-----------------------------------------------------------------------------
(* the first anchor *)

\* the earliest date of the series
EarliestSeriesDate ==
    CHOOSE d \in { hist_data[i].Date : i \in 1..Len(hist_data) } :
        \A i \in 1..Len(hist_data) : d <= hist_data[i].Date

\* C22: in fetch_nifty_data and nse_index_st the first candidate is anchored on
\* the supplied start_date itself, so that the first window starts at the latest
\* observation on or before start_date and never at a later one; without a
\* start_date it starts at the earliest date of the series.
C22_FirstAnchor ==
    (routine \in {"fetch", "nse"} /\ passed # << >>)
    => IF start_date # << >>
       THEN LatestObservationAtOrBefore(passed[1].start_date, passed[1].start_nav,
                                        4 * start_date[1])
       ELSE passed[1].start_date = EarliestSeriesDate

-----------------------------------------------------------------------------
(* the stride *)

\* the anchor date of the candidate a routine is about to examine: current_start
\* in fetch_nifty_data, the date of the row at position start_idx in the others
AnchorDate == IF routine = "fetch" THEN current_start ELSE df[start_idx + 1].Date

\* C23: in every rolling routine, whenever the walk moves on from one candidate
\* to the next one, the next anchor is exactly stride_days calendar days after the
\* anchor it leaves, whatever days the series lacks.
C23_StrideInCalendarDays ==
    [][(Rolling /\ pc = "loop" /\ pc' = "loop"
          /\ (routine = "fetch" => current_start' # current_start)
          /\ (routine # "fetch" => start_idx' # start_idx /\ start_idx' < Len(df)))
        => AnchorDate' = AnchorDate + stride_days]_vars

-----------------------------------------------------------------------------
(* the year ranges of fetch_nse_historical_data *)

\* some request of the call met usable data
SomeRangeHadData == \E i \in 1..Len(attempts) : attempts[i].outcome = "data"

\* C24: fetch_nse_historical_data requests the ranges max_years, max_years - 1,
\* ..., 1 in that order and returns the data of the first range that has some; a
\* range whose request raises, is answered with another status than 200 or has
\* no data never keeps the smaller ranges from being requested; the error "after
\* trying all year ranges" is returned only when every range failed.
C24_YearRangesInOrder ==
    routine = "history"
    => /\ \A i \in 1..Len(attempts) : attempts[i].years = max_years - i + 1
       /\ \A i \in 1..Len(attempts) :
             attempts[i].outcome = "data"
             => /\ i = Len(attempts)
                /\ historical_result = HistoricalData(attempts[i].years)
       /\ (historical_result.kind # "none" /\ ~SomeRangeHadData)
             => Len(attempts) = max_years
       /\ historical_result = AllRangesFailed
             => Len(attempts) = max_years /\ ~SomeRangeHadData

-----------------------------------------------------------------------------
(* the index list and its fallback *)

\* the API call yields a usable list: status 200 and a 'stn' list with an item
\* of two elements or more
ApiListUsable == api_answer.kind = "stn" /\ ParseStn(api_answer.stn) # {}

\* the local file can be read as JSON; it holds a list when it has a usable item
LocalReadable == local_file.kind \in {"no_stn", "stn"}
LocalListExists == local_file.kind = "stn" /\ ParseStn(local_file.stn) # {}

\* C25: a call of fetch_nse_indices that runs the function's body returns the
\* API's list when the API call yields a usable one, otherwise the local list;
\* it returns the error "Both NSE API and local fallback failed" only when the
\* API attempt and the local file both fail; it never returns an empty mapping
\* without an error while a readable local list exists.
C25_IndicesWithFallback ==
    (routine = "indices" /\ indices_pc = "done")
    => /\ ApiListUsable => indices_result = Mapping(ParseStn(api_answer.stn))
       /\ (~ApiListUsable /\ LocalReadable)
             => indices_result = Mapping(ParseStn(local_file.stn))
       /\ indices_result = BothFailed => (~ApiListUsable /\ ~LocalReadable)
       /\ LocalListExists => indices_result # Mapping({})

-----------------------------------------------------------------------------
(* the stop test after the advance *)

RECURSIVE WindowsWithoutStopTest(_, _)
\* the list of windows the loop of lines 86-149 builds from the anchor on, ws
\* being the list built so far, when lines 147-149 are removed: every iteration
\* ends with the advance of line 145
WindowsWithoutStopTest(anchor, ws) ==
    LET si == LastAtOrBefore(4 * anchor)
        ei == LastAtOrBefore(WindowEnd(anchor))
        actual_days == (WindowEnd(anchor) - 4 * anchor) \div 4
        valid == hist_data[ei].Date - hist_data[si].Date > 0 /\ hist_data[si].Close > 0
        w == [FetchWindow(si, ei) EXCEPT !.window = Len(ws) + 1]
    IN IF Below98(end_dt - anchor) \/ Below98(actual_days) THEN ws
       ELSE IF si = 0 \/ ei = 0 THEN WindowsWithoutStopTest(anchor + stride_days, ws)
       ELSE IF Below90(hist_data[ei].Date - hist_data[si].Date) THEN ws
       ELSE IF valid /\ w.cagr.tag = "complex" THEN ws
       ELSE WindowsWithoutStopTest(anchor + stride_days,
                                   IF valid THEN Append(ws, w) ELSE ws)

\* C26: in fetch_nifty_data.calculate_rolling_cagr the list of windows the walk
\* ends with is the list the walk builds without the stop test after the
\* advance; when that test ends the walk, the 98% test of the next iteration
\* would have ended it as well.
C26_StopTestSubsumed ==
    (routine = "fetch" /\ pc \in {"stats", "done"} /\ hist_data # << >>)
    => /\ windows = WindowsWithoutStopTest(start_dt, << >>)
       /\ stop = "near_end" => Below98(end_dt - current_start)

\* a walk of fetch_nifty_data that the stop test after the advance has ended,
\* with windows in its list
C26_Witness ==
    /\ routine = "fetch" /\ pc = "done" /\ stop = "near_end"
    /\ Len(windows) >= 2

-----------------------------------------------------------------------------
(* series that span the window *)

\* C27: a series of two or more observations with positive prices whose earliest
\* and latest dates are at least window_years * 365.25 days apart, analysed from
\* its earliest date by fetch_nifty_data or nse_index_st, yields a success report
\* with at least one window, however few observations lie in between.
C27_SpanningSeriesSucceeds ==
    (/\ routine \in {"fetch", "nse"} /\ pc = "done" /\ start_date = << >>
     /\ Len(hist_data) >= 2
     /\ \A i \in 1..Len(hist_data) : hist_data[i].Close > 0
     /\ 4 * (LatestSeriesDate - EarliestSeriesDate) >= window_years * DaysPerYear4)
    => /\ result.kind = "success"
       /\ result.total_windows >= 1

-----------------------------------------------------------------------------
(* what the dashboards display *)

\* the parameters the widgets hold in the latest rerun
CurrentParams ==
    [window_years |-> widgets.window_years, start_date |-> widgets.rolling_start_date,
     index |-> widgets.selected_index_name]

\* C28: in both dashboards, after any sequence of reruns, when a rolling-CAGR
\* result is on the page the stored rolling_cagr_params are the current window
\* years, start date and index, and the result was computed for them.
C28_ShownRollingMatchesParams ==
    (routine \in Dashboards /\ shown.rolling # << >>)
    => /\ session.rolling_cagr_params = << CurrentParams >>
       /\ shown.rolling[1].params = CurrentParams

\* a rolling result for the second index and the longer window is on the page
C28_Witness ==
    /\ routine \in Dashboards /\ shown.rolling # << >>
    /\ widgets.selected_index_name = "NIFTY BANK" /\ widgets.window_years = 3

\* C29: in both dashboards whatever st.session_state stores after a rerun - the
\* historical result, the rolling result, the rolling parameters - belongs to the
\* stored current index: a rerun whose selected index differs from the stored one
\* clears them before it displays anything, and a historical or rolling result
\* on the page belongs to the index the selectbox holds.
C29_IndexChangeClears ==
    routine \in Dashboards
    => /\ session.historical_result # << >>
             => session.historical_result[1].index = session.current_index
       /\ session.rolling_cagr_result # << >>
             => session.rolling_cagr_result[1].params.index = session.current_index
       /\ session.rolling_cagr_params # << >>
             => session.rolling_cagr_params[1].index = session.current_index
       /\ shown.historical # << >>
             => shown.historical[1].index = widgets.selected_index_name
       /\ shown.rolling # << >>
             => shown.rolling[1].params.index = widgets.selected_index_name

\* the page shows the series and a rolling result of the second index while
\* st.session_state holds them, after the selection has changed at least once
C29_Witness ==
    /\ routine \in Dashboards
    /\ shown.historical # << >> /\ shown.rolling # << >>
    /\ session.current_index = "NIFTY BANK"
    /\ widgets.selected_index_name = "NIFTY BANK"

-----------------------------------------------------------------------------
(* the statistics of a report *)

\* a standard deviation that is a number >= 0: 0.0, or the root of a mean of
\* squares; NaN compares false with every number
StdIsNonNegative(sd) == sd.tag \in {"zero", "std"}

\* C30: in every success report the minimum, the maximum and the average are
\* taken over one and the same list, the cagr values of the windows whose cagr is
\* present, that list is not empty (so min_cagr <= avg_cagr <= max_cagr), and
\* std_cagr is a number >= 0.
C30_StatisticsOrdered ==
    (Rolling /\ Success)
    => /\ result.valid_cagrs # << >>
       /\ Len(result.valid_cagrs) = Len(SeqFilterCagr(result.windows))
       /\ \A i \in 1..Len(result.valid_cagrs) :
             OfSameWindow(result.valid_cagrs[i], SeqFilterCagr(result.windows)[i])
       /\ StdIsNonNegative(result.std_cagr)

=============================================================================
